---- MODULE Spec2Model ----
(***************************************************************************)
(* Model of package parallel (pkg/parallel of godotdash): the Executor     *)
(* with its two entry points For and ForWithContext, the workers they      *)
(* spawn, the sync.Once error slot, the sync.WaitGroup join and the        *)
(* derived cancellable context; and SerialExecutor, the serial loop of the  *)
(* same interface.                                                         *)
(*                                                                         *)
(* The two built-in strategies (contiguous blocks, atomic counter) are     *)
(* not part of the sources at hand; their index generators are modelled    *)
(* from the specification text (section 4.3).                              *)
(***************************************************************************)
EXTENDS Integers, FiniteSets, Sequences, TLC

\* ---------------------------------------------------------------- bounds
\* Spec explores every N in 0 .. MaxN with every number of goroutines in
\* 1 .. MaxWorkers; SpecScenario explores the scenario of ScenarioSize goroutines
\* with N = ScenarioSize (one index per goroutine under contiguous blocks).
\* N and the configured number of goroutines go down to -MaxNeg.
MaxN == 3
MaxWorkers == 3
ScenarioSize == 4
MaxNeg == 1

\* SpecRepeat makes up to MaxCalls successive calls on one Executor.
MaxCalls == 2

\* SpecLive explores every N in 0 .. LiveN with 1 .. LiveWorkers goroutines.
LiveN == 2
LiveWorkers == 2

\* SpecCPU applies WithCPUProportion on machines of 1 .. MaxCPU processors to the
\* proportions n / PScale and to NaN and the infinities; int is IntBits bits wide
\* there, and the finite proportions go beyond the largest int.
MaxCPU == 2
PScale == 2
IntBits == 4

Max(a, b) == IF a > b THEN a ELSE b
Min(a, b) == IF a < b THEN a ELSE b

Workers == 0 .. (Max(MaxWorkers, ScenarioSize) - 1)
Indices == 0 .. (Max(MaxN, ScenarioSize) + Max(MaxWorkers, ScenarioSize))

\* the value a loopBody computes for index i
F(i) == 2 * i + 1

\* ----------------------------------------------------------- error values
\* nil, and the error returned by the body of index i
NilErr == <<>>
BodyErr(i) == <<i>>

VARIABLES
    numGoroutines,     \* Executor.numGoroutines
    parallelStrategy,  \* Executor.parallelStrategy: "nil", "contiguous", "atomic"
    pcMain,            \* position of the caller: "config", "spawn", "wait", "returned"
    mode,              \* entry point in progress: "none", "For", "ForWithContext"
    N,                 \* argument N of the call
    strategy,          \* local strategy of the call (default resolved)
    grID,              \* loop variable of the spawn loop
    wgCount,           \* counter of wg
    onceDone,          \* errOnce has run its function
    onceHolder,        \* set of workers (at most one) inside errOnce.Do
    loopErr,           \* the first-error slot
    ctxDone,           \* the caller's ctx is cancelled
    cancelCalled,      \* cancel() of the derived loopCtx has been called
    retErr,            \* value returned by the call
    pc,                \* position of each worker goroutine
    idx,               \* i of each worker
    werr,              \* err of each worker
    genCur,            \* contiguous generator: next index of the block
    genEnd,            \* contiguous generator: end of the block (exclusive)
    counter,           \* atomic strategy: the shared counter
    execCount,         \* history: number of body invocations started per index
    afterCancel,       \* history: body invocations each worker started with loopCtx cancelled
    afterError,        \* history: a worker entered loopBody after its own loopBody failed
    firstCaptured,     \* history: err of the first worker that ran the function of errOnce
    firstFailed,       \* history: the first error a loopBody invocation returned
    preCancelled,      \* history: ctx was already cancelled on entry
    callsDone,         \* history: number of earlier calls made on this Executor
    bodyID,            \* history: the grID each running loopBody invocation was given
    claimCount,        \* history: how often Next() of the atomic strategy returned each value
    serI,              \* SerialExecutor: the loop variable i
    serTrace,          \* history: the arguments <<i, grID>> of the loopBody calls of SerialExecutor
    result,            \* the array a never-failing loopBody writes: result[i] = F(i)
    cancelCount,       \* history: number of cancel() calls made by workers in the call
    cpuArg,            \* history: <<p, runtime.NumCPU()>> of the last WithCPUProportion(p)
    cfgLog             \* history: <<argument, strategy replaced>> of the WithStrategy call that
                       \* configured the Executor last and has not been used by a call yet

vars == <<numGoroutines, parallelStrategy, pcMain, mode, N, strategy, grID,
          wgCount, onceDone, onceHolder, loopErr, ctxDone, cancelCalled, retErr,
          pc, idx, werr, genCur, genEnd, counter,
          execCount, afterCancel, afterError, firstCaptured, firstFailed,
          preCancelled, callsDone, bodyID, claimCount, serI, serTrace, result, cfgLog, cpuArg, cancelCount>>

execVars == <<numGoroutines, parallelStrategy, callsDone, cpuArg>>
callVars == <<mode, N, strategy, preCancelled, cfgLog>>
genVars  == <<genCur, genEnd, counter, claimCount>>
serialVars == <<serI, serTrace>>
histVars == <<execCount, afterCancel, afterError, firstCaptured, firstFailed, bodyID,
              result, cancelCount>>

\* --------------------------------------------------------------- strategies
\* ContiguousBlocksStrategy: first index of the block of worker w; the first
\* n % numGRs blocks have one index more
BlockLoNoRemainder(numGRs, w, n) == w * (n \div numGRs)
BlockLo(numGRs, w, n) == w * (n \div numGRs) + Min(w, n % numGRs)

\* ContiguousBlocksStrategy: size of the block of worker w
BlockSize(numGRs, w, n) == (n \div numGRs) + (IF w < n % numGRs THEN 1 ELSE 0)

\* ContiguousBlocksStrategy: end (exclusive) of the block of worker w
BlockHi(numGRs, w, n) == BlockLo(numGRs, w, n) + BlockSize(numGRs, w, n)

\* the indices of the block of worker w
Block(numGRs, w, n) == { i \in Indices : BlockLo(numGRs, w, n) <= i /\ i < BlockHi(numGRs, w, n) }

\* the indices whose loopBody returned an error
Failed == { werr[w][1] : w \in { x \in Workers : werr[x] # NilErr } }

\* the derived context reports an error: cancel() was called or the parent is done
LoopCtxErrOwnOnly == cancelCalled
LoopCtxErr == cancelCalled \/ ctxDone

\* no loopBody invocation is running on the goroutine
NoID == 0 - 1

\* ------------------------------------------------------------------- Init
\* NewExecutor(): numGoroutines is DefaultNumGoroutines(), one of counts
InitWith(counts) ==
    /\ numGoroutines \in counts
    /\ parallelStrategy = "nil"
    /\ pcMain = "config"
    /\ mode = "none"
    /\ N = 0
    /\ strategy = "nil"
    /\ grID = 0
    /\ wgCount = 0
    /\ onceDone = FALSE
    /\ onceHolder = {}
    /\ loopErr = NilErr
    /\ ctxDone = FALSE
    /\ cancelCalled = FALSE
    /\ retErr = NilErr
    /\ pc = [w \in Workers |-> "idle"]
    /\ idx = [w \in Workers |-> 0]
    /\ werr = [w \in Workers |-> NilErr]
    /\ genCur = [w \in Workers |-> 0]
    /\ genEnd = [w \in Workers |-> 0]
    /\ counter = 0
    /\ execCount = [i \in Indices |-> 0]
    /\ afterCancel = [w \in Workers |-> 0]
    /\ afterError = [w \in Workers |-> FALSE]
    /\ firstCaptured = NilErr
    /\ firstFailed = NilErr
    /\ preCancelled = FALSE
    /\ callsDone = 0
    /\ cancelCount = 0
    /\ cpuArg = <<>>
    /\ cfgLog = <<>>
    /\ serI = 0
    /\ serTrace = <<>>
    /\ result = [i \in Indices |-> 0]
    /\ claimCount = [i \in Indices |-> 0]
    /\ bodyID = [w \in Workers |-> NoID]

Init == InitWith(1 .. MaxWorkers)

\* ---------------------------------------------------------- configuration
WithNumGoroutines(n) ==
    /\ pcMain = "config"
    /\ numGoroutines' = n
    /\ UNCHANGED <<serialVars, parallelStrategy, callsDone, cpuArg, pcMain, callVars, grID, wgCount, onceDone,
                   onceHolder, loopErr, ctxDone, cancelCalled, retErr, pc, idx,
                   werr, genVars, histVars>>

\* the switch of WithStrategy: the strategy it stores for strategyType
StrategyForKeepingOthers(strategyType) ==
    CASE strategyType = "StrategyPreassignIndices" -> "contiguous"
      [] strategyType = "StrategyFetchNextIndex"   -> "atomic"
      [] OTHER                                     -> parallelStrategy

StrategyFor(strategyType) ==
    CASE strategyType = "StrategyPreassignIndices" -> "contiguous"
      [] strategyType = "StrategyFetchNextIndex"   -> "atomic"
      [] OTHER                                     -> "nil"

\* ------------------------------------------------------------ float64 and int
\* a float64 is <<"fin", n>> for the number n / PScale, or NaN or an infinity
NaN == <<"nan">>
PosInf == <<"posinf">>
NegInf == <<"neginf">>
Fin(n) == <<"fin", n>>

\* the values of int
IntMax == 2 ^ (IntBits - 1) - 1
IntMin == 0 - 2 ^ (IntBits - 1)
IntRange == IntMin .. IntMax

\* the proportions tried: from -1 to what gives more than IntMax on one processor
Proportions ==
    { Fin(n) : n \in (0 - PScale) .. (PScale * (IntMax + 2)) } \cup {NaN, PosInf, NegInf}

\* p * float64(numCPU), for numCPU > 0
FloatMul(x, c) == IF x[1] = "fin" THEN Fin(x[2] * c) ELSE x

\* math.Max(x, y) for a finite y: NaN if x is NaN, +Inf if x is +Inf
MathMax(x, y) ==
    CASE x[1] = "nan"    -> NaN
      [] x[1] = "posinf" -> PosInf
      [] x[1] = "neginf" -> y
      [] OTHER           -> IF x[2] > y[2] THEN x ELSE y

\* the number x truncated towards zero
Trunc(x) == IF x[2] >= 0 THEN x[2] \div PScale ELSE 0 - ((0 - x[2]) \div PScale)

\* int(x): the values the conversion can give; when int cannot represent the
\* truncated value (NaN and the infinities included) the conversion succeeds and
\* its result depends on the implementation
ToIntClamped(x) ==
    IF x[1] = "fin" /\ Trunc(x) \in IntRange THEN {Trunc(x)} ELSE {1}

ToInt(x) ==
    IF x[1] = "fin" /\ Trunc(x) \in IntRange THEN {Trunc(x)} ELSE IntRange

\* WithCPUProportion(p) on a machine where runtime.NumCPU() is numCPU
WithCPUProportion(p, numCPU) ==
    /\ pcMain = "config"
    /\ LET pCPU == FloatMul(p, numCPU)
       IN numGoroutines' \in ToInt(MathMax(pCPU, Fin(PScale)))
    /\ cpuArg' = <<p, numCPU>>
    /\ UNCHANGED <<serialVars, parallelStrategy, callsDone, pcMain, callVars, grID,
                   wgCount, onceDone, onceHolder, loopErr, ctxDone, cancelCalled,
                   retErr, pc, idx, werr, genVars, histVars>>

WithStrategy(strategyType) ==
    /\ pcMain = "config"
    /\ parallelStrategy' = StrategyFor(strategyType)
    /\ cfgLog' = <<strategyType, parallelStrategy>>
    /\ UNCHANGED <<serialVars, numGoroutines, callsDone, cpuArg, pcMain, mode, N, strategy,
                   preCancelled, grID, wgCount, onceDone,
                   onceHolder, loopErr, ctxDone, cancelCalled, retErr, pc, idx,
                   werr, genVars, histVars>>

\* the three declared values of StrategyType and a value that is none of them
StrategyTypes == {"StrategyUseDefaults", "StrategyPreassignIndices", "StrategyFetchNextIndex",
                  "StrategyUnrecognized"}

\* WithCustomStrategy stores the caller's own Strategy
WithCustomStrategy ==
    /\ pcMain = "config"
    /\ parallelStrategy' = "custom"
    /\ cfgLog' = <<>>
    /\ UNCHANGED <<serialVars, numGoroutines, callsDone, cpuArg, pcMain, mode, N, strategy,
                   preCancelled, grID, wgCount, onceDone, onceHolder, loopErr, ctxDone,
                   cancelCalled, retErr, pc, idx, werr, genVars, histVars>>

\* ------------------------------------------------------------ entry points
\* the strategy a call uses: the configured one, contiguous blocks when nil
ResolveStrategy == IF parallelStrategy = "nil" THEN "contiguous" ELSE parallelStrategy

\* wg.Add(e.numGoroutines) panics on a negative counter; the spawn loop is entered
\* when grID = 0 < e.numGoroutines, and wg.Wait() is reached at once otherwise
PcAfterEntry ==
    IF numGoroutines < 0 THEN "panicked"
    ELSE IF numGoroutines > 0 THEN "spawn" ELSE "wait"

\* AtomicCounterStrategy: the counter the generators of a call share starts at
\* zero in every call
CounterKept == counter
CounterAtEntry == 0

\* For, up to the spawn loop
For(n) ==
    /\ pcMain = "config"
    /\ mode' = "For"
    /\ N' = n
    /\ strategy' = ResolveStrategy
    /\ wgCount' = IF numGoroutines < 0 THEN wgCount ELSE numGoroutines
    /\ grID' = 0
    /\ pcMain' = PcAfterEntry
    /\ counter' = CounterAtEntry
    /\ cfgLog' = <<>>
    /\ claimCount' = [i \in Indices |-> 0]
    /\ UNCHANGED <<serialVars, execVars, preCancelled, onceDone, onceHolder, loopErr, ctxDone,
                   cancelCalled, retErr, pc, idx, werr, genCur, genEnd, histVars>>

\* ForWithContext, up to the spawn loop; done: ctx is already cancelled
ForWithContext(done, n) ==
    /\ pcMain = "config"
    /\ mode' = "ForWithContext"
    /\ N' = n
    /\ strategy' = ResolveStrategy
    /\ wgCount' = IF numGoroutines < 0 THEN wgCount ELSE numGoroutines
    /\ ctxDone' = done
    /\ preCancelled' = done
    /\ cancelCalled' = FALSE
    /\ grID' = 0
    /\ pcMain' = PcAfterEntry
    /\ counter' = CounterAtEntry
    /\ cfgLog' = <<>>
    /\ claimCount' = [i \in Indices |-> 0]
    /\ UNCHANGED <<serialVars, execVars, onceDone, onceHolder, loopErr, retErr, pc, idx, werr,
                   genCur, genEnd, histVars>>

\* condition of the spawn loop: grID < e.numGoroutines
SpawnCondOneMore(g) == g <= numGoroutines
SpawnCond(g) == g < numGoroutines

\* one iteration of the spawn loop: go func(grID)
Spawn ==
    /\ pcMain = "spawn"
    /\ SpawnCond(grID)
    /\ pc' = [pc EXCEPT ![grID] = "start"]
    /\ grID' = grID + 1
    /\ pcMain' = IF SpawnCond(grID + 1) THEN "spawn" ELSE "wait"
    /\ UNCHANGED <<serialVars, execVars, callVars, wgCount, onceDone, onceHolder, loopErr,
                   ctxDone, cancelCalled, retErr, idx, werr, genVars, histVars>>

\* wg.Wait(): the counter of wg is zero
JoinEarly == wgCount < numGoroutines
JoinDone == wgCount = 0

\* defer cancel() of ForWithContext
NoDeferredCancel == FALSE
DeferredCancel == mode = "ForWithContext"

\* the value returned: return loopErr, whatever the state of ctx (CtxErr stands
\* for ctx.Err() of a cancelled ctx, which the calls never return)
CtxErr == <<0 - 1>>
ReturnValueOrCtxErr == IF loopErr = NilErr /\ ctxDone THEN CtxErr ELSE loopErr
ReturnValue == loopErr

\* wg.Wait() returns, the call returns loopErr, the deferred cancel() runs
WaitReturn ==
    /\ pcMain = "wait"
    /\ JoinDone
    /\ retErr' = ReturnValue
    /\ cancelCalled' = (cancelCalled \/ DeferredCancel)
    /\ pcMain' = "returned"
    /\ UNCHANGED <<serialVars, execVars, callVars, grID, wgCount, onceDone, onceHolder, loopErr,
                   ctxDone, pc, idx, werr, genVars, histVars>>

\* the caller cancels ctx (or its deadline expires) while the call runs
CallerCancel ==
    /\ mode = "ForWithContext"
    /\ pcMain \in {"spawn", "wait"}
    /\ ~ctxDone
    /\ ctxDone' = TRUE
    /\ UNCHANGED <<serialVars, execVars, callVars, pcMain, grID, wgCount, onceDone, onceHolder,
                   loopErr, cancelCalled, retErr, pc, idx, werr, genVars, histVars>>

\* ---------------------------------------------------------- SerialExecutor
\* the grID SerialExecutor passes to loopBody
SerialWorkerID == 0

\* SerialExecutor().For(n, loopBody) is entered: i := 0
SerialFor(n) ==
    /\ pcMain = "config"
    /\ mode' = "Serial"
    /\ N' = n
    /\ serI' = 0
    /\ pcMain' = "serial"
    /\ cfgLog' = <<>>
    /\ UNCHANGED <<execVars, strategy, preCancelled, grID, wgCount, onceDone, onceHolder,
                   loopErr, ctxDone, cancelCalled, retErr, pc, idx, werr, genVars,
                   histVars, serTrace>>

\* i < N holds: loopBody(i, 0) is entered
SerialCall ==
    /\ pcMain = "serial"
    /\ serI < N
    /\ pcMain' = "serialBody"
    /\ execCount' = [execCount EXCEPT ![serI] = @ + 1]
    /\ serTrace' = Append(serTrace, <<serI, SerialWorkerID>>)
    /\ UNCHANGED <<execVars, callVars, grID, wgCount, onceDone, onceHolder, loopErr,
                   ctxDone, cancelCalled, retErr, pc, idx, werr, genVars, serI,
                   afterCancel, afterError, firstCaptured, firstFailed, bodyID, result>>
    /\ UNCHANGED cancelCount

\* where SerialExecutor goes when loopBody has returned: return err, or i++
SerialPcAfterBodyContinue(fails) == "serial"
SerialPcAfterBody(fails) == IF fails THEN "returned" ELSE "serial"

\* loopBody returns: with an error, which is returned at once, or with nil
SerialBodyReturn(fails) ==
    /\ pcMain = "serialBody"
    /\ pcMain' = SerialPcAfterBody(fails)
    /\ retErr' = IF SerialPcAfterBody(fails) = "returned" THEN BodyErr(serI) ELSE retErr
    /\ serI' = IF SerialPcAfterBody(fails) = "returned" THEN serI ELSE serI + 1
    /\ firstFailed' = IF fails /\ firstFailed = NilErr THEN BodyErr(serI) ELSE firstFailed
    /\ result' = IF fails THEN result ELSE [result EXCEPT ![serI] = F(serI)]
    /\ UNCHANGED <<execVars, callVars, grID, wgCount, onceDone, onceHolder, loopErr,
                   ctxDone, cancelCalled, pc, idx, werr, genVars, serTrace,
                   execCount, afterCancel, afterError, firstCaptured, bodyID>>
    /\ UNCHANGED cancelCount

\* i < N fails: return nil
SerialReturn ==
    /\ pcMain = "serial"
    /\ ~(serI < N)
    /\ pcMain' = "returned"
    /\ retErr' = NilErr
    /\ UNCHANGED <<execVars, callVars, grID, wgCount, onceDone, onceHolder, loopErr,
                   ctxDone, cancelCalled, pc, idx, werr, genVars, serialVars, histVars>>

\* the result array SerialExecutor().For(n, loopBody) leaves when loopBody writes
\* result[i] = F(i) and never fails: the loop of SerialExecutor from i on
RECURSIVE SerialRun(_, _, _)
SerialRun(i, n, res) ==
    IF i < n THEN SerialRun(i + 1, n, [res EXCEPT ![i] = F(i)]) ELSE res

SerialResult(n) == SerialRun(0, n, [i \in Indices |-> 0])

\* the call has returned and the caller goes on to use the same Executor: the
\* locals of the call are gone, the configuration stays
CallAgain ==
    /\ pcMain = "returned"
    /\ callsDone + 1 < MaxCalls
    /\ callsDone' = callsDone + 1
    /\ pcMain' = "config"
    /\ mode' = "none"
    /\ N' = 0
    /\ strategy' = "nil"
    /\ grID' = 0
    /\ onceDone' = FALSE
    /\ loopErr' = NilErr
    /\ ctxDone' = FALSE
    /\ cancelCalled' = FALSE
    /\ retErr' = NilErr
    /\ pc' = [w \in Workers |-> "idle"]
    /\ idx' = [w \in Workers |-> 0]
    /\ werr' = [w \in Workers |-> NilErr]
    /\ genCur' = [w \in Workers |-> 0]
    /\ genEnd' = [w \in Workers |-> 0]
    /\ execCount' = [i \in Indices |-> 0]
    /\ afterCancel' = [w \in Workers |-> 0]
    /\ afterError' = [w \in Workers |-> FALSE]
    /\ firstCaptured' = NilErr
    /\ firstFailed' = NilErr
    /\ preCancelled' = FALSE
    /\ serI' = 0
    /\ serTrace' = <<>>
    /\ cfgLog' = <<>>
    /\ result' = [i \in Indices |-> 0]
    /\ UNCHANGED <<numGoroutines, parallelStrategy, cpuArg, wgCount, onceHolder, counter, bodyID,
                   claimCount>>
    /\ cancelCount' = 0

\* ----------------------------------------------------------------- workers
\* defer wg.Done(): runs when the step leaves the goroutine function
WgNeverDone(w, newpc) == wgCount
WgDoneEveryStep(w, newpc) == wgCount - 1
WgAfter(w, newpc) == IF newpc = "done" THEN wgCount - 1 ELSE wgCount

\* loop condition of the worker loop
LoopCondOffByOne(i) == i < N - 1
LoopCondNotEqual(i) == i # N
LoopCondInclusive(i) == i <= N
LoopCond(i) == i < N

\* first statement of the loop body: For calls loopBody, ForWithContext checks loopCtx
PcLoopBody == IF mode = "ForWithContext" THEN "check" ELSE "call"

\* the generator of worker w: the one strategy.IndexGenerator(e.numGoroutines, grID, N)
\* makes when the goroutine starts, the worker's own one afterwards
GenCurRestarted(w) == BlockLo(numGoroutines, w, N)
GenCurOf(w) == IF pc[w] = "start" THEN BlockLo(numGoroutines, w, N) ELSE genCur[w]
GenEndOf(w) == IF pc[w] = "start" THEN BlockHi(numGoroutines, w, N) ELSE genEnd[w]

\* IndexGenerator.Next(): the value returned to worker w; the atomic strategy
\* returns the value the counter had before the increment
NextValueIncremented(w) ==
    IF strategy = "atomic" THEN counter + 1
    ELSE IF GenCurOf(w) < GenEndOf(w) THEN GenCurOf(w) ELSE N

NextValue(w) ==
    IF strategy = "atomic" THEN counter
    ELSE IF GenCurOf(w) < GenEndOf(w) THEN GenCurOf(w) ELSE N

\* for i := indexGenerator.Next(); i < N; i = indexGenerator.Next(): one Next() and
\* the test i < N, at the start of the goroutine (with the making of its generator)
\* and after every iteration; i is dead once the loop is left
FetchIndex(w) ==
    /\ pc[w] \in {"start", "next"}
    /\ LET v == NextValue(w)
           newpc == IF LoopCond(v) THEN PcLoopBody ELSE "done"
       IN /\ idx' = [idx EXCEPT ![w] = IF LoopCond(v) THEN v ELSE 0]
          /\ counter' = IF strategy = "atomic" THEN counter + 1 ELSE counter
          /\ claimCount' = IF strategy = "atomic"
                              THEN [claimCount EXCEPT ![v] = @ + 1] ELSE claimCount
          /\ genCur' = IF strategy = "contiguous"
                          THEN [genCur EXCEPT ![w] = IF GenCurOf(w) < GenEndOf(w)
                                                       THEN GenCurOf(w) + 1 ELSE GenCurOf(w)]
                          ELSE genCur
          /\ genEnd' = IF strategy = "contiguous"
                          THEN [genEnd EXCEPT ![w] = GenEndOf(w)] ELSE genEnd
          /\ pc' = [pc EXCEPT ![w] = newpc]
          /\ wgCount' = WgAfter(w, newpc)
    /\ UNCHANGED <<serialVars, execVars, callVars, pcMain, grID, onceDone, onceHolder, loopErr,
                   ctxDone, cancelCalled, retErr, werr, histVars>>

\* loopCtx.Err() != nil
CheckOnlyParent == ctxDone
CheckNever == FALSE
CheckInverted == ~LoopCtxErr
CheckCancelled == LoopCtxErr

\* if loopCtx.Err() != nil { return }
CheckCtx(w) ==
    /\ pc[w] = "check"
    /\ LET newpc == IF CheckCancelled THEN "done" ELSE "call"
       IN /\ pc' = [pc EXCEPT ![w] = newpc]
          /\ wgCount' = WgAfter(w, newpc)
    /\ UNCHANGED <<serialVars, execVars, callVars, pcMain, grID, onceDone, onceHolder, loopErr,
                   ctxDone, cancelCalled, retErr, idx, werr, genVars, histVars>>

\* the second argument of loopBody: the goroutine's own parameter grID, which
\* go func(grID int) { ... }(grID) received by value
BodyWorkerIDLoopVar(w) == grID
BodyWorkerID(w) == w

\* loopBody(i, grID) is entered
BodyStart(w) ==
    /\ pc[w] = "call"
    /\ pc' = [pc EXCEPT ![w] = "body"]
    /\ execCount' = [execCount EXCEPT ![idx[w]] = @ + 1]
    /\ afterError' = [afterError EXCEPT ![w] = @ \/ werr[w] # NilErr]
    /\ afterCancel' = IF mode = "ForWithContext" /\ LoopCtxErr
                         THEN [afterCancel EXCEPT ![w] = @ + 1] ELSE afterCancel
    /\ UNCHANGED <<serialVars, execVars, callVars, pcMain, grID, wgCount, onceDone, onceHolder,
                   loopErr, ctxDone, cancelCalled, retErr, idx, werr, genVars,
                   firstCaptured, firstFailed, result>>
    /\ bodyID' = [bodyID EXCEPT ![w] = BodyWorkerID(w)]
    /\ UNCHANGED cancelCount

\* where a worker goes when loopBody has returned: err != nil or the next iteration
PcAfterBodyQuit(fails) == IF fails THEN "capture" ELSE "done"
PcAfterBodyIgnoreError(fails) == "next"
PcAfterBody(fails) == IF fails THEN "capture" ELSE "next"

\* loopBody returns, with an error or with nil
BodyReturn(w, fails) ==
    /\ pc[w] = "body"
    /\ LET newpc == PcAfterBody(fails)
       IN /\ pc' = [pc EXCEPT ![w] = newpc]
          /\ wgCount' = WgAfter(w, newpc)
    /\ werr' = [werr EXCEPT ![w] = IF fails THEN BodyErr(idx[w]) ELSE werr[w]]
    /\ firstFailed' = IF fails /\ firstFailed = NilErr THEN BodyErr(idx[w]) ELSE firstFailed
    /\ UNCHANGED <<serialVars, execVars, callVars, pcMain, grID, onceDone, onceHolder, loopErr,
                   ctxDone, cancelCalled, retErr, idx, genVars,
                   execCount, afterCancel, afterError, firstCaptured>>
    /\ bodyID' = [bodyID EXCEPT ![w] = NoID]
    /\ result' = IF fails THEN result ELSE [result EXCEPT ![idx[w]] = F(idx[w])]
    /\ UNCHANGED cancelCount

\* sync.Once: the function runs only on the first Do
OnceEveryTime == TRUE
OnceShouldRun == ~onceDone

\* the function given to errOnce.Do calls cancel() (ForWithContext only)
CancelOnError == mode = "ForWithContext"

\* the return that follows errOnce.Do
PcAfterCaptureContinue == "next"
PcAfterCapture == "done"

\* loopErr = err in the function of errOnce: the value the slot gets
CapturedNothing(w) == loopErr
CapturedErr(w) == werr[w]

\* errOnce.Do, first Do: the lock of errOnce is taken and loopErr = err
OnceBegin(w) ==
    /\ pc[w] = "capture"
    /\ onceHolder = {}
    /\ OnceShouldRun
    /\ onceHolder' = {w}
    /\ loopErr' = CapturedErr(w)
    /\ firstCaptured' = IF firstCaptured = NilErr THEN werr[w] ELSE firstCaptured
    /\ pc' = [pc EXCEPT ![w] = "once"]
    /\ UNCHANGED <<serialVars, execVars, callVars, pcMain, grID, wgCount, onceDone, ctxDone,
                   cancelCalled, retErr, idx, werr, genVars,
                   execCount, afterCancel, afterError, firstFailed, bodyID,
                   result>>
    /\ UNCHANGED cancelCount

\* errOnce.Do, first Do: cancel() (ForWithContext), errOnce is done and unlocked, return
OnceEnd(w) ==
    /\ pc[w] = "once"
    /\ cancelCalled' = (cancelCalled \/ CancelOnError)
    /\ onceDone' = TRUE
    /\ onceHolder' = {}
    /\ pc' = [pc EXCEPT ![w] = PcAfterCapture]
    /\ wgCount' = WgAfter(w, PcAfterCapture)
    /\ UNCHANGED <<serialVars, execVars, callVars, pcMain, grID, loopErr, ctxDone, retErr, idx,
                   werr, genVars, execCount, afterCancel,
                   afterError, firstCaptured, firstFailed, bodyID, result>>
    /\ cancelCount' = IF CancelOnError THEN cancelCount + 1 ELSE cancelCount

\* errOnce.Do, later Do: nothing is run, return
OnceSkip(w) ==
    /\ pc[w] = "capture"
    /\ onceHolder = {}
    /\ ~OnceShouldRun
    /\ pc' = [pc EXCEPT ![w] = PcAfterCapture]
    /\ wgCount' = WgAfter(w, PcAfterCapture)
    /\ UNCHANGED <<serialVars, execVars, callVars, pcMain, grID, onceDone, onceHolder, loopErr,
                   ctxDone, cancelCalled, retErr, idx, werr, genVars, histVars>>

\* ------------------------------------------------------------------- Next
\* the generators of a custom strategy are the caller's code: calls on an Executor
\* that holds one are not explored
Next ==
    \/ \E n \in (0 - MaxNeg) .. MaxWorkers : WithNumGoroutines(n)
    \/ \E t \in StrategyTypes : WithStrategy(t)
    \/ WithCustomStrategy
    \/ parallelStrategy # "custom" /\ \E n \in (0 - MaxNeg) .. MaxN : For(n)
    \/ parallelStrategy # "custom" /\
          \E done \in BOOLEAN, n \in (0 - MaxNeg) .. MaxN : ForWithContext(done, n)
    \/ Spawn
    \/ WaitReturn
    \/ CallerCancel
    \/ \E w \in Workers : FetchIndex(w)
    \/ \E w \in Workers : CheckCtx(w)
    \/ \E w \in Workers : BodyStart(w)
    \/ \E w \in Workers, fails \in BOOLEAN : BodyReturn(w, fails)
    \/ \E w \in Workers : OnceBegin(w)
    \/ \E w \in Workers : OnceEnd(w)
    \/ \E w \in Workers : OnceSkip(w)
    \/ \E n \in (0 - MaxNeg) .. MaxN : SerialFor(n)
    \/ SerialCall
    \/ \E fails \in BOOLEAN : SerialBodyReturn(fails)
    \/ SerialReturn

Spec == Init /\ [][Next]_vars

\* the scenario: ScenarioSize goroutines, N = ScenarioSize, contiguous blocks
\* (configured or by default), with both entry points
InitScenario == InitWith({ScenarioSize})

NextScenario ==
    \/ \E t \in {"StrategyUseDefaults", "StrategyPreassignIndices"} : WithStrategy(t)
    \/ For(ScenarioSize)
    \/ \E done \in BOOLEAN : ForWithContext(done, ScenarioSize)
    \/ Spawn
    \/ WaitReturn
    \/ CallerCancel
    \/ \E w \in Workers : FetchIndex(w)
    \/ \E w \in Workers : CheckCtx(w)
    \/ \E w \in Workers : BodyStart(w)
    \/ \E w \in Workers, fails \in BOOLEAN : BodyReturn(w, fails)
    \/ \E w \in Workers : OnceBegin(w)
    \/ \E w \in Workers : OnceEnd(w)
    \/ \E w \in Workers : OnceSkip(w)

SpecScenario == InitScenario /\ [][NextScenario]_vars

\* successive calls of For on one Executor that is configured before its first call
NextRepeat ==
    \/ callsDone = 0 /\ \E n \in 1 .. MaxWorkers : WithNumGoroutines(n)
    \/ callsDone = 0 /\ \E t \in StrategyTypes : WithStrategy(t)
    \/ \E n \in 0 .. MaxN : For(n)
    \/ Spawn
    \/ WaitReturn
    \/ CallAgain
    \/ \E w \in Workers : FetchIndex(w)
    \/ \E w \in Workers : BodyStart(w)
    \/ \E w \in Workers, fails \in BOOLEAN : BodyReturn(w, fails)
    \/ \E w \in Workers : OnceBegin(w)
    \/ \E w \in Workers : OnceEnd(w)
    \/ \E w \in Workers : OnceSkip(w)

SpecRepeat == Init /\ [][NextRepeat]_vars

\* one step of the goroutine grID = w
WorkerStep(w) ==
    \/ FetchIndex(w)
    \/ CheckCtx(w)
    \/ BodyStart(w)
    \/ \E fails \in BOOLEAN : BodyReturn(w, fails)
    \/ OnceBegin(w)
    \/ OnceEnd(w)
    \/ OnceSkip(w)

\* the calls of For and ForWithContext under fair scheduling: the caller and
\* every goroutine that can take a step eventually takes one, and every loopBody
\* invocation returns; the caller of ForWithContext may cancel ctx or not
InitLive == InitWith(1 .. LiveWorkers)

NextLive ==
    \/ \E t \in StrategyTypes : WithStrategy(t)
    \/ \E n \in 0 .. LiveN : For(n)
    \/ \E done \in BOOLEAN, n \in 0 .. LiveN : ForWithContext(done, n)
    \/ Spawn
    \/ WaitReturn
    \/ CallerCancel
    \/ \E w \in Workers : FetchIndex(w)
    \/ \E w \in Workers : CheckCtx(w)
    \/ \E w \in Workers : BodyStart(w)
    \/ \E w \in Workers, fails \in BOOLEAN : BodyReturn(w, fails)
    \/ \E w \in Workers : OnceBegin(w)
    \/ \E w \in Workers : OnceEnd(w)
    \/ \E w \in Workers : OnceSkip(w)

Fairness ==
    /\ WF_vars(Spawn)
    /\ WF_vars(WaitReturn)
    /\ \A w \in Workers : WF_vars(WorkerStep(w))

SpecLive == InitLive /\ [][NextLive]_vars /\ Fairness

\* WithCPUProportion applied to every proportion on every machine
NextCPU == \E p \in Proportions, numCPU \in 1 .. MaxCPU : WithCPUProportion(p, numCPU)

SpecCPU == Init /\ [][NextCPU]_vars

TypeOK ==
    /\ numGoroutines \in (0 - MaxNeg) .. Cardinality(Workers)
    /\ wgCount \in 0 .. Max(numGoroutines, 0)
    /\ pcMain \in {"config", "spawn", "wait", "returned", "panicked", "serial", "serialBody"}
    /\ \A w \in Workers : pc[w] \in {"idle", "start", "next", "check", "call", "body", "capture", "once", "done"}

\* ------------------------------------------------------------- properties
Returned == pcMain = "returned"
Spawned == 0 .. (numGoroutines - 1)
AllWorkersDone == \A w \in Spawned : pc[w] = "done"

\* C1: with at least one worker, when no body invocation returned an error, For
\* has invoked body exactly once
\* for every index of [0, N) and for no other index when it returns, whatever the
\* strategy, the number of workers and the interleaving.
C1_ForCoversEveryIndexOnce ==
    (Returned /\ mode = "For" /\ numGoroutines >= 1 /\ Failed = {}) =>
        \A i \in Indices : execCount[i] = IF i < N THEN 1 ELSE 0

C1_Witness ==
    /\ Returned /\ mode = "For" /\ Failed = {}
    /\ N = 3 /\ numGoroutines = 2 /\ strategy = "atomic"
    /\ \A i \in 0 .. 2 : execCount[i] = 1

\* C2: For and ForWithContext return only after every one of the numGoroutines
\* workers has terminated: in every state after the return no worker is about to
\* call body, inside body or anywhere else but at its end.
C2_ReturnOnlyAfterAllWorkersDone ==
    (Returned /\ mode \in {"For", "ForWithContext"}) =>
        (AllWorkersDone /\ \A w \in Workers : pc[w] \in {"idle", "done"})

C2_Witness ==
    /\ Returned /\ mode = "ForWithContext" /\ numGoroutines = 3 /\ N = 3
    /\ AllWorkersDone /\ \A i \in 0 .. 2 : execCount[i] = 1

\* C3: For returns a non-nil error iff some body invocation returned an error; the
\* slot is written at most once (it always holds the error of the first worker that
\* captured), and the value returned is that error, the error of a failed index.
C3_FirstErrorWins ==
    mode = "For" =>
        /\ loopErr = firstCaptured
        /\ loopErr # NilErr => loopErr \in { BodyErr(i) : i \in Failed }
        /\ Returned => /\ retErr = firstCaptured
                       /\ (retErr # NilErr) <=> (Failed # {})

\* the error returned is not the one of the smallest failing index
C3_Witness ==
    /\ Returned /\ mode = "For"
    /\ retErr = BodyErr(2) /\ Failed = {0, 2}

\* C4: For has no cross-worker cancellation. Under contiguous blocks every worker
\* whose own body calls all succeeded has executed its whole block when For returns;
\* under the atomic counter every index a worker has claimed is executed or about
\* to be. With one index per worker under contiguous blocks (4 workers and N = 4,
\* say) and only body(0) failing, For returns the error of index 0 and every other
\* index has been executed.
C4_NoCrossWorkerCancellation ==
    mode = "For" =>
        /\ (Returned /\ strategy = "contiguous") =>
              \A w \in Spawned : werr[w] = NilErr =>
                  \A i \in Block(numGoroutines, w, N) : execCount[i] = 1
        /\ strategy = "atomic" =>
              \A i \in 0 .. (Min(counter, N) - 1) :
                  \/ execCount[i] = 1
                  \/ \E w \in Spawned : pc[w] = "call" /\ idx[w] = i
        /\ (Returned /\ strategy = "contiguous" /\ N = numGoroutines /\ Failed = {0}) =>
              /\ retErr = BodyErr(0)
              /\ \A i \in 1 .. (N - 1) : execCount[i] = 1

\* one index per worker, body(0) failed, the other indices were executed
C4_Witness ==
    /\ Returned /\ mode = "For" /\ strategy = "contiguous"
    /\ numGoroutines = 3 /\ N = 3 /\ Failed = {0}
    /\ retErr = BodyErr(0) /\ \A i \in 1 .. 2 : execCount[i] = 1

\* C5: in For, once a loopBody invocation has returned an error, no loopBody
\* invocation starts any more (doc comment of For).
C5_NoCallAfterError ==
    [][(mode = "For" /\ Failed # {}) => execCount' = execCount]_vars

\* C6: in For and in ForWithContext a worker whose body returned an error enters
\* body no more, and the failing index is not invoked again by any worker.
C6_FailingWorkerStops ==
    /\ \A w \in Workers : ~afterError[w]
    /\ \A w \in Workers : werr[w] # NilErr => pc[w] \in {"capture", "once", "done"}
    /\ \A i \in Failed : execCount[i] = 1

\* the only worker failed at index 1 and index 2 was left unexecuted
C6_Witness ==
    /\ Returned /\ numGoroutines = 1 /\ N = 3
    /\ Failed = {1} /\ execCount[1] = 1 /\ execCount[2] = 0

\* C7 as stated: in ForWithContext the first worker whose body returns an error is
\* the one that records its error and cancels the derived context, and a worker
\* starts at most one body invocation after the cancellation.
C7_FirstFailerCancels ==
    mode = "ForWithContext" =>
        /\ loopErr # NilErr => loopErr = firstFailed
        /\ onceDone => cancelCalled
        /\ \A w \in Workers : afterCancel[w] <= 1

\* C7 as amended: in ForWithContext the first worker to capture an error into the
\* slot (the one that runs the function of errOnce) records its error and cancels
\* the derived context, whether or not its body was the first to return an error;
\* and a worker starts at most one body invocation after the derived context was
\* cancelled: the one whose check had passed before.
C7_CancellationOnError ==
    mode = "ForWithContext" =>
        /\ loopErr = firstCaptured
        /\ onceDone => (loopErr # NilErr /\ cancelCalled)
        /\ \A w \in Workers : afterCancel[w] <= 1

\* a sibling started one body invocation after the cancellation on error
C7_Witness ==
    /\ mode = "ForWithContext" /\ ~ctxDone /\ onceDone /\ cancelCalled
    /\ \E w \in Spawned : afterCancel[w] = 1 /\ werr[w] = NilErr /\ pc[w] = "done"

\* the scenario of C8: ForWithContext, 4 workers, N = 4, contiguous blocks
C8_Scenario ==
    /\ mode = "ForWithContext" /\ strategy = "contiguous"
    /\ numGoroutines = ScenarioSize /\ N = ScenarioSize

\* C8 as stated: in the scenario, after the body of index 0 has returned an error
\* no worker starts a body call any more, and ForWithContext returns that error.
C8_NoStartAfterError ==
    /\ [][(C8_Scenario /\ 0 \in Failed) => execCount' = execCount]_vars
    /\ []((C8_Scenario /\ Returned /\ Failed = {0}) => retErr = BodyErr(0))

\* C8 as amended: in the scenario, once the derived context is cancelled no
\* worker passes its pre-invocation check any more (only a worker whose check had
\* already passed can still start its body call), and when index 0 is the only
\* failing index ForWithContext returns its error.
C8_NoCheckPassesAfterCancel ==
    /\ [][(C8_Scenario /\ LoopCtxErr) =>
              \A w \in Workers : pc'[w] = "call" => pc[w] = "call"]_vars
    /\ []((C8_Scenario /\ Returned /\ Failed = {0}) => retErr = BodyErr(0))

\* index 0 failed, the other workers never started their body call
C8_Witness ==
    /\ C8_Scenario /\ Returned /\ ~ctxDone /\ Failed = {0} /\ retErr = BodyErr(0)
    /\ numGoroutines = 4 /\ N = 4
    /\ \A i \in 1 .. 3 : execCount[i] = 0

\* C9: when ctx is already cancelled on entry to ForWithContext, body is never
\* invoked, and the call returns after all workers have exited.
C9_PreCancelledRunsNothing ==
    preCancelled =>
        /\ \A i \in Indices : execCount[i] = 0
        /\ Returned => AllWorkersDone

C9_Witness ==
    /\ preCancelled /\ Returned /\ N = 3 /\ numGoroutines = 3 /\ strategy = "atomic"
    /\ \A i \in Indices : execCount[i] = 0

\* C10: when ForWithContext has returned, cancel() of the derived context has been
\* called, on every path.
C10_DerivedContextReleased ==
    (Returned /\ mode = "ForWithContext") => cancelCalled

\* the path where only the deferred cancel() releases the context
C10_Witness ==
    /\ Returned /\ mode = "ForWithContext" /\ cancelCalled
    /\ ~ctxDone /\ Failed = {} /\ ~onceDone /\ N = 2
\* C11: for N <= 0, with at least one worker and whatever the strategy, For and
\* ForWithContext never invoke body and return nil.
C11_DegenerateN ==
    (mode \in {"For", "ForWithContext"} /\ N <= 0 /\ numGoroutines >= 1) =>
        /\ \A i \in Indices : execCount[i] = 0
        /\ \A w \in Workers : pc[w] \in {"idle", "start", "done"}
        /\ Returned => retErr = NilErr

\* a call with a negative N and the atomic counter has returned
C11_Witness ==
    /\ Returned /\ mode = "For" /\ N < 0 /\ numGoroutines = 2 /\ strategy = "atomic"
    /\ counter = 2 /\ retErr = NilErr

\* C12: configured with a non-positive number of goroutines and N > 0, For does not
\* return success while indices of [0, N) are unexecuted: it runs them all (as
\* with one worker) or it fails visibly.
C12_NonPositiveWorkersDefended ==
    (mode = "For" /\ numGoroutines <= 0 /\ N > 0 /\ Returned /\ retErr = NilErr) =>
        \A i \in 0 .. (N - 1) : execCount[i] = 1
C14_WorkerIdentity ==
    /\ \A w \in Workers : pc[w] = "body" => bodyID[w] \in 0 .. (numGoroutines - 1)
    /\ LET Running == { w \in Workers : pc[w] = "body" }
       IN \A w1, w2 \in Running : w1 # w2 => bodyID[w1] # bodyID[w2]

\* three body invocations run at once, while the spawn loop has just ended
C14_Witness ==
    /\ numGoroutines = 3 /\ grID = 3
    /\ \A w \in 0 .. 2 : pc[w] = "body" /\ bodyID[w] = w

\* C15: under contiguous blocks, for N >= 0 and at least one worker, the block of
\* worker w is a half-open range of floor(N / numGoroutines) indices plus one iff
\* w < N mod numGoroutines; the blocks follow one another in the order of the
\* worker ids from 0 to N (so they are disjoint and cover [0, N), every index in
\* exactly one block), their sizes differ by at most 1, and every worker works
\* inside its own block. N = 10 with 3 workers gives the blocks [0,4), [4,7) and
\* [7,10), of sizes 4, 3, 3.
C15_ContiguousBlockSizing ==
    /\ (mode # "none" /\ strategy = "contiguous" /\ N >= 0 /\ numGoroutines >= 1) =>
          LET W == numGoroutines
              Lo(w) == BlockLo(W, w, N)
              Hi(w) == BlockHi(W, w, N)
          IN /\ \A w \in Spawned :
                    Hi(w) - Lo(w) = (N \div W) + (IF w < N % W THEN 1 ELSE 0)
             /\ Lo(0) = 0
             /\ Hi(W - 1) = N
             /\ \A w \in 0 .. (W - 2) : Hi(w) = Lo(w + 1)
             /\ \A i \in 0 .. (N - 1) : \E w \in Spawned : Lo(w) <= i /\ i < Hi(w)
             /\ \A w1, w2 \in Spawned :
                    /\ w1 < w2 => Hi(w1) <= Lo(w2)
                    /\ (Hi(w1) - Lo(w1)) - (Hi(w2) - Lo(w2)) <= 1
             /\ \A w \in Spawned :
                    /\ pc[w] \in {"check", "call", "body"} =>
                          (Lo(w) <= idx[w] /\ idx[w] < Hi(w))
                    /\ pc[w] \notin {"idle", "start"} =>
                          /\ genEnd[w] = Hi(w)
                          /\ Lo(w) <= genCur[w] /\ genCur[w] <= genEnd[w]
    /\ <<BlockLo(3, 0, 10), BlockLo(3, 1, 10), BlockLo(3, 2, 10)>> = <<0, 4, 7>>
    /\ <<BlockHi(3, 0, 10), BlockHi(3, 1, 10), BlockHi(3, 2, 10)>> = <<4, 7, 10>>
    /\ <<BlockSize(3, 0, 10), BlockSize(3, 1, 10), BlockSize(3, 2, 10)>> = <<4, 3, 3>>

\* N = 3 on 2 workers: worker 0 has run its block [0, 2) and worker 1 is inside
\* the body of index 2, the only index of its block [2, 3)
C15_Witness ==
    /\ mode = "For" /\ strategy = "contiguous" /\ N = 3 /\ numGoroutines = 2
    /\ pc[0] = "done" /\ genCur[0] = 2 /\ genEnd[0] = 2
    /\ pc[1] = "body" /\ idx[1] = 2 /\ genEnd[1] = 3
    /\ execCount[0] = 1 /\ execCount[1] = 1

\* C16: under the atomic counter the values Next() has returned in one call are
\* exactly 0, 1, ..., counter - 1, each returned once, whatever the interleaving;
\* the value the next Next() returns is the present value of the counter for every
\* worker alike; no two workers hold the same index, no index is executed twice
\* and none that was not claimed; and once the counter has reached N every
\* generator reports exhaustion (a value that fails i < N).
C16_AtomicCounterClaiming ==
    (mode # "none" /\ strategy = "atomic") =>
        LET Busy == { w \in Spawned : pc[w] \in {"check", "call", "body"} }
        IN /\ \A v \in Indices : claimCount[v] = IF v < counter THEN 1 ELSE 0
           /\ \A w \in Spawned : NextValue(w) = counter
           /\ \A w1, w2 \in Busy : w1 # w2 => idx[w1] # idx[w2]
           /\ \A w \in Busy : idx[w] < counter /\ idx[w] < N
           /\ \A i \in Indices : execCount[i] <= (IF i < counter THEN 1 ELSE 0)
           /\ counter >= N => \A w \in Spawned : ~LoopCond(NextValue(w))

\* worker 1 claimed index 0 and worker 0 claimed index 1; both are in body
C16_Witness ==
    /\ mode = "For" /\ strategy = "atomic" /\ N = 3 /\ numGoroutines = 2
    /\ counter = 2 /\ claimCount[0] = 1 /\ claimCount[1] = 1
    /\ pc[1] = "body" /\ idx[1] = 0
    /\ pc[0] = "body" /\ idx[0] = 1

\* C17: SerialExecutor().For(N, body) spawns no goroutine and invokes body for
\* 0, 1, 2, ... in ascending order, each index once and always with workerID 0; an
\* error of body ends the call at once: it is the value returned and its index is
\* the last one invoked; if no body fails every index of [0, N) is invoked and nil
\* is returned.
C17_SerialExecutor ==
    mode = "Serial" =>
        LET invoked == Len(serTrace)
        IN /\ \A w \in Workers : pc[w] = "idle"
           /\ \A k \in 1 .. invoked : serTrace[k] = <<k - 1, 0>>
           /\ invoked <= Max(N, 0)
           /\ \A i \in Indices : execCount[i] = IF i < invoked THEN 1 ELSE 0
           /\ firstFailed # NilErr =>
                 /\ Returned
                 /\ retErr = firstFailed
                 /\ firstFailed = BodyErr(invoked - 1)
           /\ (Returned /\ firstFailed = NilErr) =>
                 /\ retErr = NilErr
                 /\ invoked = Max(N, 0)

\* body failed at index 1 of 3: its error is returned and index 2 was not invoked
C17_Witness ==
    /\ mode = "Serial" /\ Returned /\ N = 3
    /\ serTrace = << <<0, 0>>, <<1, 0>> >>
    /\ retErr = BodyErr(1) /\ execCount[2] = 0

\* C18: for a body that writes result[i] = F(i) and never fails, the result array
\* left by Executor.For with at least one worker, under either built-in strategy
\* and in every interleaving, and the one left by SerialExecutor().For are both
\* the array the serial loop computes for N.
C18_SerialParallelEquivalence ==
    (Returned /\ firstFailed = NilErr
       /\ (mode = "Serial" \/ (mode = "For" /\ numGoroutines >= 1))) =>
        result = SerialResult(N)

\* For has returned with 3 workers under the atomic counter: result is F(0), F(1), F(2)
C18_Witness ==
    /\ Returned /\ mode = "For" /\ strategy = "atomic" /\ firstFailed = NilErr
    /\ N = 3 /\ numGoroutines = 3
    /\ result[0] = 1 /\ result[1] = 3 /\ result[2] = 5 /\ result[3] = 0
    /\ result = SerialResult(3)

\* C19: with at least one worker, when no body invocation returned an error and
\* the caller's context was not cancelled during the call, ForWithContext has
\* invoked body exactly once for every index of [0, N) and for no other index when
\* it returns, and it returns nil.
C19_ForWithContextCoverage ==
    (Returned /\ mode = "ForWithContext" /\ numGoroutines >= 1
       /\ ~ctxDone /\ Failed = {}) =>
        /\ \A i \in Indices : execCount[i] = IF i < N THEN 1 ELSE 0
        /\ retErr = NilErr

C19_Witness ==
    /\ Returned /\ mode = "ForWithContext" /\ ~ctxDone /\ Failed = {}
    /\ N = 3 /\ numGoroutines = 2 /\ strategy = "contiguous"
    /\ \A i \in 0 .. 2 : execCount[i] = 1
    /\ retErr = NilErr

OutsideBody == {"start", "next", "check", "call", "capture", "once"}

C22_CPUProportionAtLeastOne ==
    cpuArg # <<>> =>
        /\ numGoroutines >= 1
        /\ (cpuArg[1][1] = "fin" /\ cpuArg[1][2] * cpuArg[2] >= PScale
              /\ (cpuArg[1][2] * cpuArg[2]) \div PScale <= IntMax) =>
              numGoroutines = (cpuArg[1][2] * cpuArg[2]) \div PScale

\* C23: at every point of every call of For and of ForWithContext, whatever the
\* failures of body and the cancellations, no index has been passed to body more
\* than once and none outside [0, N) has been passed to it.
C23_AtMostOnce ==
    mode \in {"For", "ForWithContext"} =>
        \A i \in Indices : execCount[i] <= (IF i < N THEN 1 ELSE 0)

\* ForWithContext has returned after a failure of body(0) and the caller's
\* cancellation: index 1 was executed once, index 2 never
C23_Witness ==
    /\ Returned /\ mode = "ForWithContext" /\ ctxDone /\ ~preCancelled
    /\ N = 3 /\ Failed = {0}
    /\ execCount[0] = 1 /\ execCount[1] = 1 /\ execCount[2] = 0

\* C24: ForWithContext returns a non-nil error iff some body invocation returned
\* an error, and then the first one captured, also when ctx is cancelled at the
\* same time; the cancellation of the caller's ctx is never returned as an error:
\* when the caller cancels and no body fails the call returns nil, whatever was
\* left unexecuted.
C24_OnlyBodyErrors ==
    (Returned /\ mode = "ForWithContext") =>
        /\ (retErr # NilErr) <=> (Failed # {})
        /\ retErr = firstCaptured
        /\ retErr # NilErr => retErr \in { BodyErr(i) : i \in Failed }
        /\ (ctxDone /\ Failed = {}) => retErr = NilErr

\* the caller cancelled during the call, no body failed, index 2 was never
\* executed, and nil is returned
C24_Witness ==
    /\ Returned /\ mode = "ForWithContext" /\ ctxDone /\ ~preCancelled
    /\ N = 3 /\ numGoroutines >= 1 /\ Failed = {}
    /\ execCount[0] = 1 /\ execCount[2] = 0
    /\ retErr = NilErr

\* C25: during a call of ForWithContext whose caller has not cancelled ctx, if
\* the derived context is cancelled then the first-error slot holds a non-nil
\* error; and the workers of a call call cancel() at most once.
C25_SlotBeforeCancel ==
    mode = "ForWithContext" =>
        /\ (pcMain \in {"spawn", "wait"} /\ ~ctxDone /\ LoopCtxErr) => loopErr # NilErr
        /\ cancelCount <= 1

\* two bodies have failed, the caller has not cancelled: the derived context was
\* cancelled once, by the worker whose error is in the slot
C25_Witness ==
    /\ mode = "ForWithContext" /\ pcMain = "wait" /\ ~ctxDone
    /\ Failed = {0, 1} /\ AllWorkersDone
    /\ cancelCalled /\ cancelCount = 1 /\ loopErr = BodyErr(1)

\* C26: in For under the atomic counter every index a worker has claimed is
\* executed or about to be executed by that worker, so when fewer workers have
\* failed than there are workers every index of [0, N) has been executed exactly
\* once when For returns, in spite of the errors; under contiguous blocks the
\* indices that follow the failing index in the block of the failing worker are
\* never executed.
C26_ErrorsAndCoverage ==
    mode = "For" =>
        /\ strategy = "atomic" =>
              /\ \A w \in Spawned : pc[w] = "next" => execCount[idx[w]] = 1
              /\ (Returned /\ Cardinality(Failed) < numGoroutines) =>
                    \A i \in Indices : execCount[i] = IF i < N THEN 1 ELSE 0
        /\ strategy = "contiguous" =>
              \A w \in Spawned : werr[w] # NilErr =>
                  \A i \in Block(numGoroutines, w, N) :
                      i > werr[w][1] => execCount[i] = 0

\* atomic counter, 3 workers: body(0) and body(1) failed, the third worker has
\* executed index 2 and For has returned
C26_Witness ==
    /\ Returned /\ mode = "For" /\ strategy = "atomic"
    /\ numGoroutines = 3 /\ N = 3 /\ Failed = {0, 1}
    /\ \A i \in 0 .. 2 : execCount[i] = 1

\* contiguous blocks: worker 0 failed at index 0 of its block [0, 2) and index 1
\* was never executed
C26_WitnessContiguous ==
    /\ Returned /\ mode = "For" /\ strategy = "contiguous"
    /\ numGoroutines = 2 /\ N = 3 /\ Failed = {0}
    /\ execCount[1] = 0 /\ execCount[2] = 1

\* C27: the indices one worker passes to body are strictly increasing under both
\* strategies: every index a worker claims after an iteration is greater than
\* the one it has just executed. Under contiguous blocks the indices a worker has
\* executed are a prefix of its block, and the whole block once the worker has
\* ended without an error of its own and without a cancellation.
C27_IncreasingPerWorker ==
    /\ [][\A w \in Workers :
              (pc[w] = "next" /\ pc'[w] \in {"check", "call"}) => idx'[w] > idx[w]]_vars
    /\ []((mode \in {"For", "ForWithContext"} /\ strategy = "contiguous") =>
             \A w \in Spawned :
                 /\ \A i, j \in Block(numGoroutines, w, N) :
                        (i < j /\ execCount[j] = 1) => execCount[i] = 1
                 /\ (pc[w] = "done" /\ werr[w] = NilErr /\ ~LoopCtxErr) =>
                        \A i \in Block(numGoroutines, w, N) : execCount[i] = 1)

\* atomic counter: worker 0 is in the body of index 2 after it executed index 0,
\* while worker 1 is still in the body of index 1
C27_Witness ==
    /\ mode = "For" /\ strategy = "atomic" /\ N = 3 /\ numGoroutines = 2
    /\ pc[0] = "body" /\ idx[0] = 2 /\ pc[1] = "body" /\ idx[1] = 1
    /\ execCount[0] = 1

\* C28: a call of For or of ForWithContext spawns the goroutines 0, 1, ... one by
\* one and exactly numGoroutines of them by the time it waits; at every moment
\* at most numGoroutines body invocations are in progress, all of them on
\* goroutines of this call; and none is in progress, nor any goroutine alive, once
\* the call has returned.
C28_BoundedParallelism ==
    mode \in {"For", "ForWithContext"} =>
        /\ grID <= Max(numGoroutines, 0)
        /\ \A w \in Workers : (pc[w] # "idle") <=> (w < grID)
        /\ pcMain \in {"wait", "returned"} => grID = Max(numGoroutines, 0)
        /\ Cardinality({ w \in Workers : pc[w] = "body" }) <= Max(numGoroutines, 0)
        /\ Returned => \A w \in Workers : pc[w] \in {"idle", "done"}

\* all 3 goroutines of a call of For are inside body while the caller waits
C28_Witness ==
    /\ mode = "For" /\ pcMain = "wait" /\ numGoroutines = 3 /\ wgCount = 3
    /\ \A w \in 0 .. 2 : pc[w] = "body"
    /\ pc[3] = "idle"

====
